---- MODULE Spec2Model ----
(***************************************************************************)
(* Model of port_scanner.py: a generator of ports shared by `threads`      *)
(* worker threads running scan_port, two locks, the shared open_ports list *)
(* and the main thread that starts the workers, joins them and reports.    *)
(***************************************************************************)
EXTENDS Integers, Sequences, FiniteSets, TLC

\* ---- bounds of the model ----
MaxPort == 2
MaxThreads == 2

Ports == 1..MaxPort
Threads == 1..MaxThreads
NoThread == 0
Outcomes == {"Open", "Closed", "ProbeError"}

VARIABLES
    arguments,        \* parsed command line: start, end, threads, verbose
    prober,           \* the network: what connect() to each port ends in
    ports,            \* the generator made by prepare_ports: values still to yield
    open_ports,       \* the shared list of open ports
    ports_lock,       \* holder of ports_lock, NoThread when free
    open_ports_lock,  \* holder of open_ports_lock, NoThread when free
    pc,               \* position of each worker thread in scan_port
    port,             \* local variable `port` of each worker, 0 while unbound
    sock,             \* the number of sockets the worker has open
    main_pc,          \* position of the main thread
    thread_list,      \* prepare_threads: the threads created and started
    joined,           \* prepare_threads: how many threads of thread_list are joined
    clock,            \* time(): advanced by each blocking connect
    start_time,
    end_time,
    reported,         \* the list printed by "Open Ports Found", <<>> before
    probes,           \* per port, the number of connect calls made to it
    issued,           \* per port, the number of times next(ports) yielded it
    notified,         \* per port, the number of "Open port found" lines
    diagnostics       \* per port, the number of "Error scanning port" lines

vars == <<arguments, prober, ports, open_ports, ports_lock, open_ports_lock,
          pc, port, sock, main_pc, thread_list, joined, clock, start_time,
          end_time, reported, probes, issued, notified, diagnostics>>

shared == <<ports, open_ports, ports_lock, open_ports_lock>>
mainVars == <<main_pc, thread_list, joined, start_time, end_time, reported>>
logVars == <<probes, issued, notified, diagnostics>>

\* ---- pure helpers ----
Range(s) == {s[i] : i \in 1..Len(s)}

Count(s, x) == Cardinality({i \in 1..Len(s) : s[i] = x})

RECURSIVE SumOver(_, _)
SumOver(f, S) ==
    IF S = {} THEN 0
    ELSE LET x == CHOOSE y \in S : TRUE IN f[x] + SumOver(f, S \ {x})

\* a generator that always yields at least its start value
prepare_ports_nonempty(start, end) ==
    IF end >= start
    THEN [i \in 1..(end - start + 1) |-> start + i - 1]
    ELSE <<start>>

\* range(1, end + 1): the start port is ignored
prepare_ports_from_one(start, end) ==
    [i \in 1..(IF end >= 1 THEN end ELSE 0) |-> i]

\* range(start, end): the last port is left out
prepare_ports_exclusive(start, end) ==
    [i \in 1..(IF end > start THEN end - start ELSE 0) |-> start + i - 1]

\* range(start, end + 1) as the sequence of values the generator yields
prepare_ports(start, end) ==
    [i \in 1..(IF end >= start THEN end - start + 1 ELSE 0) |-> start + i - 1]

\* range(max(threads, 1)): never fewer than one thread
SpawnCountClamped(threads) == IF threads > 1 THEN threads ELSE 1

\* range(1, threads): one thread too few
SpawnCountShort(threads) == IF threads > 1 THEN threads - 1 ELSE 0

\* range(threads): the number of iterations of the spawning loop
SpawnCount(threads) == IF threads > 0 THEN threads ELSE 0

\* every exception is taken for a closed port and nothing is printed
AfterConnectSilent(o) ==
    CASE o = "Open" -> "acquire_open"
      [] OTHER -> "close"

\* a bare `except:` around the connect whose handler falls through to the
\* append: a failed probe is recorded as open
AfterConnectErrorOpen(o) ==
    CASE o = "Closed" -> "close"
      [] OTHER -> "acquire_open"

\* `continue` that leaves the loop body without closing the socket
AfterConnectLeak(o) ==
    CASE o = "Open" -> "acquire_open"
      [] o = "Closed" -> "loop"
      [] OTHER -> "report_error"

\* no handler for the other exceptions: the thread dies of them
AfterConnectUncaught(o) ==
    CASE o = "Open" -> "acquire_open"
      [] o = "Closed" -> "close"
      [] OTHER -> "done"

\* where scan_port goes after s.connect() ended in outcome o
AfterConnect(o) ==
    CASE o = "Open" -> "acquire_open"
      [] o = "Closed" -> "close"
      [] OTHER -> "report_error"

Init ==
    /\ arguments \in [start : Ports, end : 0..MaxPort,
                      threads : 0..MaxThreads, verbose : BOOLEAN]
    /\ prober \in [Ports -> Outcomes]
    /\ \A p \in Ports :
          (p < arguments.start \/ p > arguments.end) => prober[p] = "Closed"
    /\ ports = prepare_ports(arguments.start, arguments.end)
    /\ open_ports = <<>>
    /\ ports_lock = NoThread
    /\ open_ports_lock = NoThread
    /\ pc = [t \in Threads |-> "unstarted"]
    /\ port = [t \in Threads |-> 0]
    /\ sock = [t \in Threads |-> 0]
    /\ main_pc = "start_time"
    /\ thread_list = <<>>
    /\ joined = 0
    /\ clock = 0
    /\ start_time = 0
    /\ end_time = 0
    /\ reported = <<>>
    /\ probes = [p \in Ports |-> 0]
    /\ issued = [p \in Ports |-> 0]
    /\ notified = [p \in Ports |-> 0]
    /\ diagnostics = [p \in Ports |-> 0]

\* ---- scan_port, one worker thread t ----

\* the generator is entered without waiting for the lock
AcquirePortsLockNoWait(t) ==
    /\ pc[t] = "loop"
    /\ ports_lock' = t
    /\ pc' = [pc EXCEPT ![t] = "next"]
    /\ UNCHANGED <<arguments, prober, ports, open_ports, open_ports_lock,
                   port, sock, clock>>
    /\ UNCHANGED mainVars
    /\ UNCHANGED logVars

\* `with ports_lock:` entered
AcquirePortsLock(t) ==
    /\ pc[t] = "loop"
    /\ ports_lock = NoThread
    /\ ports_lock' = t
    /\ pc' = [pc EXCEPT ![t] = "next"]
    /\ UNCHANGED <<arguments, prober, ports, open_ports, open_ports_lock,
                   port, sock, clock>>
    /\ UNCHANGED mainVars
    /\ UNCHANGED logVars

\* the generator steps by two: every other port is skipped
TakeNextSkip(t) ==
    /\ pc[t] = "next"
    /\ ports_lock = t
    /\ Len(ports) > 0
    /\ port' = [port EXCEPT ![t] = Head(ports)]
    /\ ports' = IF Len(ports) > 1 THEN Tail(Tail(ports)) ELSE Tail(ports)
    /\ issued' = [issued EXCEPT ![Head(ports)] = @ + 1]
    /\ ports_lock' = NoThread
    /\ pc' = [pc EXCEPT ![t] = "socket"]
    /\ UNCHANGED <<arguments, prober, open_ports, open_ports_lock, sock, clock>>
    /\ UNCHANGED mainVars
    /\ UNCHANGED <<probes, notified, diagnostics>>

\* the whole loop body is inside `with ports_lock:`, which is therefore
\* still held while the socket is opened and connected
TakeNextHoldLock(t) ==
    /\ pc[t] = "next"
    /\ ports_lock = t
    /\ Len(ports) > 0
    /\ port' = [port EXCEPT ![t] = Head(ports)]
    /\ ports' = Tail(ports)
    /\ issued' = [issued EXCEPT ![Head(ports)] = @ + 1]
    /\ pc' = [pc EXCEPT ![t] = "socket"]
    /\ UNCHANGED <<arguments, prober, open_ports, ports_lock, open_ports_lock,
                   sock, clock>>
    /\ UNCHANGED mainVars
    /\ UNCHANGED <<probes, notified, diagnostics>>

\* port = next(ports), then the with block is left and the lock released
TakeNext(t) ==
    /\ pc[t] = "next"
    /\ ports_lock = t
    /\ Len(ports) > 0
    /\ port' = [port EXCEPT ![t] = Head(ports)]
    /\ ports' = Tail(ports)
    /\ issued' = [issued EXCEPT ![Head(ports)] = @ + 1]
    /\ ports_lock' = NoThread
    /\ pc' = [pc EXCEPT ![t] = "socket"]
    /\ UNCHANGED <<arguments, prober, open_ports, open_ports_lock, sock, clock>>
    /\ UNCHANGED mainVars
    /\ UNCHANGED <<probes, notified, diagnostics>>

\* break out of a lock taken with acquire() and never released
ExhaustedKeepLock(t) ==
    /\ pc[t] = "next"
    /\ ports_lock = t
    /\ Len(ports) = 0
    /\ pc' = [pc EXCEPT ![t] = "done"]
    /\ UNCHANGED <<arguments, prober, ports, open_ports, ports_lock,
                   open_ports_lock, port, sock, clock>>
    /\ UNCHANGED mainVars
    /\ UNCHANGED logVars

\* next(ports) raises StopIteration: break, leaving the with block
Exhausted(t) ==
    /\ pc[t] = "next"
    /\ ports_lock = t
    /\ Len(ports) = 0
    /\ ports_lock' = NoThread
    /\ pc' = [pc EXCEPT ![t] = "done"]
    /\ UNCHANGED <<arguments, prober, ports, open_ports, open_ports_lock,
                   port, sock, clock>>
    /\ UNCHANGED mainVars
    /\ UNCHANGED logVars

\* with socket.socket(...) as s: s.settimeout(1)
OpenSocket(t) ==
    /\ pc[t] = "socket"
    /\ sock' = [sock EXCEPT ![t] = @ + 1]
    /\ pc' = [pc EXCEPT ![t] = "connect"]
    /\ UNCHANGED <<arguments, prober, port, clock>>
    /\ UNCHANGED shared
    /\ UNCHANGED mainVars
    /\ UNCHANGED logVars

\* s.connect((arguments.ip, port)) returns or raises
Connect(t) ==
    /\ pc[t] = "connect"
    /\ probes' = [probes EXCEPT ![port[t]] = @ + 1]
    /\ clock' = clock + 1
    /\ pc' = [pc EXCEPT ![t] = AfterConnect(prober[port[t]])]
    /\ UNCHANGED <<arguments, prober, port, sock>>
    /\ UNCHANGED shared
    /\ UNCHANGED mainVars
    /\ UNCHANGED <<issued, notified, diagnostics>>

\* `with open_ports_lock:` entered
AcquireOpenPortsLock(t) ==
    /\ pc[t] = "acquire_open"
    /\ open_ports_lock = NoThread
    /\ open_ports_lock' = t
    /\ pc' = [pc EXCEPT ![t] = "append"]
    /\ UNCHANGED <<arguments, prober, ports, open_ports, ports_lock,
                   port, sock, clock>>
    /\ UNCHANGED mainVars
    /\ UNCHANGED logVars

\* the list is kept sorted: the port is inserted at its numeric place
AppendOpenPortSorted(t) ==
    /\ pc[t] = "append"
    /\ open_ports_lock = t
    /\ open_ports' =
          LET below == SelectSeq(open_ports, LAMBDA x : x < port[t])
              above == SelectSeq(open_ports, LAMBDA x : x >= port[t])
          IN below \o <<port[t]>> \o above
    /\ open_ports_lock' = NoThread
    /\ pc' = [pc EXCEPT ![t] = "verbose"]
    /\ UNCHANGED <<arguments, prober, ports, ports_lock, port, sock, clock>>
    /\ UNCHANGED mainVars
    /\ UNCHANGED logVars

\* open_ports.insert(0, port): the newest port comes first
AppendOpenPortFront(t) ==
    /\ pc[t] = "append"
    /\ open_ports_lock = t
    /\ open_ports' = <<port[t]>> \o open_ports
    /\ open_ports_lock' = NoThread
    /\ pc' = [pc EXCEPT ![t] = "verbose"]
    /\ UNCHANGED <<arguments, prober, ports, ports_lock, port, sock, clock>>
    /\ UNCHANGED mainVars
    /\ UNCHANGED logVars

\* an unsynchronised read-modify-write of the list: this thread writes back
\* a copy read before another thread, which has only just appended, wrote
AppendOpenPortRacy(t) ==
    /\ pc[t] = "append"
    /\ open_ports_lock = t
    /\ open_ports' = IF \E u \in Threads \ {t} : pc[u] = "verbose"
                     THEN <<port[t]>>
                     ELSE Append(open_ports, port[t])
    /\ open_ports_lock' = NoThread
    /\ pc' = [pc EXCEPT ![t] = "verbose"]
    /\ UNCHANGED <<arguments, prober, ports, ports_lock, port, sock, clock>>
    /\ UNCHANGED mainVars
    /\ UNCHANGED logVars

\* open_ports.append(port), then the lock is released
AppendOpenPort(t) ==
    /\ pc[t] = "append"
    /\ open_ports_lock = t
    /\ open_ports' = Append(open_ports, port[t])
    /\ open_ports_lock' = NoThread
    /\ pc' = [pc EXCEPT ![t] = "verbose"]
    /\ UNCHANGED <<arguments, prober, ports, ports_lock, port, sock, clock>>
    /\ UNCHANGED mainVars
    /\ UNCHANGED logVars

\* the print without the test of arguments.verbose
NotifyAlways(t) ==
    /\ pc[t] = "verbose"
    /\ notified' = [notified EXCEPT ![port[t]] = @ + 1]
    /\ pc' = [pc EXCEPT ![t] = "close"]
    /\ UNCHANGED <<arguments, prober, port, sock, clock>>
    /\ UNCHANGED shared
    /\ UNCHANGED mainVars
    /\ UNCHANGED <<probes, issued, diagnostics>>

\* if arguments.verbose: print("Open port found: ...")
Notify(t) ==
    /\ pc[t] = "verbose"
    /\ notified' = IF arguments.verbose
                   THEN [notified EXCEPT ![port[t]] = @ + 1]
                   ELSE notified
    /\ pc' = [pc EXCEPT ![t] = "close"]
    /\ UNCHANGED <<arguments, prober, port, sock, clock>>
    /\ UNCHANGED shared
    /\ UNCHANGED mainVars
    /\ UNCHANGED <<probes, issued, diagnostics>>

\* except Exception as e: print("Error scanning port ...")
ReportError(t) ==
    /\ pc[t] = "report_error"
    /\ diagnostics' = [diagnostics EXCEPT ![port[t]] = @ + 1]
    /\ pc' = [pc EXCEPT ![t] = "close"]
    /\ UNCHANGED <<arguments, prober, port, sock, clock>>
    /\ UNCHANGED shared
    /\ UNCHANGED mainVars
    /\ UNCHANGED <<probes, issued, notified>>

\* the socket's with block is left (normally or by continue): s is closed
CloseSocket(t) ==
    /\ pc[t] = "close"
    /\ sock' = [sock EXCEPT ![t] = @ - 1]
    /\ pc' = [pc EXCEPT ![t] = "loop"]
    /\ UNCHANGED <<arguments, prober, port, clock>>
    /\ UNCHANGED shared
    /\ UNCHANGED mainVars
    /\ UNCHANGED logVars

scan_port(t) ==
    \/ AcquirePortsLock(t)
    \/ TakeNext(t)
    \/ Exhausted(t)
    \/ OpenSocket(t)
    \/ Connect(t)
    \/ AcquireOpenPortsLock(t)
    \/ AppendOpenPort(t)
    \/ Notify(t)
    \/ ReportError(t)
    \/ CloseSocket(t)

\* ---- the main thread ----
workerVars == <<pc, port, sock>>

\* start_time = time()
RecordStart ==
    /\ main_pc = "start_time"
    /\ start_time' = clock
    /\ main_pc' = "spawn"
    /\ UNCHANGED <<arguments, prober, clock, thread_list, joined, end_time, reported>>
    /\ UNCHANGED shared
    /\ UNCHANGED workerVars
    /\ UNCHANGED logVars

\* one iteration of `for _ in range(threads)`: create, append, start
StartThread ==
    /\ main_pc = "spawn"
    /\ Len(thread_list) < SpawnCount(arguments.threads)
    /\ LET t == Len(thread_list) + 1 IN
          /\ thread_list' = Append(thread_list, t)
          /\ pc' = [pc EXCEPT ![t] = "loop"]
    /\ UNCHANGED <<arguments, prober, clock, port, sock, main_pc, joined,
                   start_time, end_time, reported>>
    /\ UNCHANGED shared
    /\ UNCHANGED logVars

\* the spawning loop ends
SpawnDone ==
    /\ main_pc = "spawn"
    /\ Len(thread_list) >= SpawnCount(arguments.threads)
    /\ main_pc' = "join"
    /\ UNCHANGED <<arguments, prober, clock, thread_list, joined, start_time,
                   end_time, reported>>
    /\ UNCHANGED shared
    /\ UNCHANGED workerVars
    /\ UNCHANGED logVars

\* a join that does not wait for the thread
JoinReturnsAtOnce(t) == pc[t] \in {"unstarted", "loop", "next", "socket", "connect",
                                   "acquire_open", "append", "verbose",
                                   "report_error", "close", "done"}

\* thread.join() returns only when that thread has terminated
JoinReturns(t) == pc[t] = "done"

\* one iteration of `for thread in thread_list: thread.join()`
JoinThread ==
    /\ main_pc = "join"
    /\ joined < Len(thread_list)
    /\ JoinReturns(thread_list[joined + 1])
    /\ joined' = joined + 1
    /\ UNCHANGED <<arguments, prober, clock, thread_list, main_pc, start_time,
                   end_time, reported>>
    /\ UNCHANGED shared
    /\ UNCHANGED workerVars
    /\ UNCHANGED logVars

\* the joining loop ends, prepare_threads returns
JoinDone ==
    /\ main_pc = "join"
    /\ joined >= Len(thread_list)
    /\ main_pc' = "end_time"
    /\ UNCHANGED <<arguments, prober, clock, thread_list, joined, start_time,
                   end_time, reported>>
    /\ UNCHANGED shared
    /\ UNCHANGED workerVars
    /\ UNCHANGED logVars

\* end_time = time()
RecordEnd ==
    /\ main_pc = "end_time"
    /\ end_time' = clock
    /\ main_pc' = "report"
    /\ UNCHANGED <<arguments, prober, clock, thread_list, joined, start_time, reported>>
    /\ UNCHANGED shared
    /\ UNCHANGED workerVars
    /\ UNCHANGED logVars

\* print(f"Open Ports Found - {open_ports}") and the time taken
Report ==
    /\ main_pc = "report"
    /\ reported' = open_ports
    /\ main_pc' = "done"
    /\ UNCHANGED <<arguments, prober, clock, thread_list, joined, start_time, end_time>>
    /\ UNCHANGED shared
    /\ UNCHANGED workerVars
    /\ UNCHANGED logVars

prepare_threads == StartThread \/ SpawnDone \/ JoinThread \/ JoinDone

Main == RecordStart \/ prepare_threads \/ RecordEnd \/ Report

Next == Main \/ \E t \in Threads : scan_port(t)

Spec == Init /\ [][Next]_vars

\* the scheduler always runs some thread that can take a step: the threads
\* are OS threads and none of them waits except on a lock or in join().
\* Fairness to each thread separately implies this weaker condition.
FairSpec == Spec /\ WF_vars(Next)

\* ---- vocabulary of the properties ----
InRange == arguments.start..arguments.end

RangeSize == IF arguments.end >= arguments.start
             THEN arguments.end - arguments.start + 1 ELSE 0

OpenInRange == {p \in Ports : p \in InRange /\ prober[p] = "Open"}

ScanComplete == main_pc = "done"

AfterJoin == main_pc \in {"end_time", "report", "done"}

Running(t) == pc[t] \notin {"unstarted", "done"}

TotalProbes == SumOver(probes, Ports)

\* the positions of scan_port in which `port` is used
Probing(t) == pc[t] \in {"socket", "connect", "acquire_open", "append",
                         "verbose", "report_error", "close"}

\* C1 (coverage): at no time has a port been probed twice, and when the scan
\* of a range with start <= end by one or more workers is complete, every
\* port of [start, end] has been probed exactly once and no other port has.
C1_Coverage ==
    (arguments.start <= arguments.end /\ arguments.threads >= 1) =>
        /\ \A p \in Ports : probes[p] <= 1
        /\ ScanComplete =>
              \A p \in Ports : probes[p] = (IF p \in InRange THEN 1 ELSE 0)

C1_Witness ==
    /\ ScanComplete
    /\ arguments.end > arguments.start
    /\ arguments.threads >= 2
    /\ port[1] # 0
    /\ port[2] # 0
    /\ port[1] # port[2]

\* C2 (race safety): when the scan by one or more workers is complete, each
\* port whose probe returned Open occurs exactly once in open_ports and no
\* other port occurs; if every port of the range is open the list has
\* end - start + 1 entries.
C2_NoLostUpdates ==
    (ScanComplete /\ arguments.threads >= 1) =>
        /\ \A p \in Ports :
              Count(open_ports, p) = (IF p \in OpenInRange THEN 1 ELSE 0)
        /\ (\A p \in InRange : prober[p] = "Open") =>
              /\ Len(open_ports) = RangeSize
              /\ Cardinality(Range(open_ports)) = RangeSize

C2_Witness ==
    /\ ScanComplete
    /\ arguments.threads >= 2
    /\ RangeSize >= 2
    /\ \A p \in InRange : prober[p] = "Open"
    /\ Len(open_ports) = RangeSize
    /\ open_ports[1] > open_ports[2]

\* C3 (concurrency invariance): for every number of workers >= 1 and every
\* interleaving, the set of ports reported at the end is the set of ports
\* of [start, end] that the prober maps to Open, which does not depend on
\* the number of workers.
C3_ConcurrencyInvariance ==
    (ScanComplete /\ arguments.threads >= 1) => Range(reported) = OpenInRange

C3_Witness ==
    /\ ScanComplete
    /\ arguments.threads >= 2
    /\ \E p, q \in InRange : prober[p] = "Open" /\ prober[q] # "Open"
    /\ Range(reported) # {}
    /\ \A t \in Range(thread_list) : port[t] # 0

\* C4 (join before read): once the main thread is past the join loop, where
\* it records end_time and reads open_ports, every thread it was asked to
\* start has been started and has terminated, no step appends to open_ports
\* any more, and the list reported is the list the workers left.
C4_JoinBeforeRead ==
    /\ [](AfterJoin =>
            /\ Len(thread_list) = arguments.threads
            /\ \A t \in Threads : ~Running(t)
            /\ \A t \in Range(thread_list) : pc[t] = "done")
    /\ [](main_pc \in {"report", "done"} => end_time = clock)
    /\ [](ScanComplete => reported = open_ports)
    /\ [][AfterJoin => open_ports' = open_ports]_vars

C4_Witness ==
    /\ ScanComplete
    /\ arguments.threads >= 2
    /\ Len(reported) >= 2
    /\ end_time >= 2
    /\ port[2] # 0

\* C5 (termination): with every probe returning and fair scheduling, every
\* started worker terminates, the join loop completes and the result is
\* reported; no state before the report is without a next step.
C5_Termination ==
    /\ <>(/\ ScanComplete
          /\ joined = arguments.threads
          /\ \A t \in Threads : pc[t] = (IF t <= arguments.threads
                                         THEN "done" ELSE "unstarted"))
    /\ [](~ScanComplete => ENABLED Next)

C5_Witness ==
    /\ ScanComplete
    /\ joined >= 2
    /\ TotalProbes >= 2
    /\ \E p \in InRange : prober[p] = "ProbeError"

\* C6 (anomaly non-fatality): a worker whose connect ends in ProbeError
\* reports it and goes on to the top of its loop; a worker terminates only
\* when next(ports) is exhausted; and at the end of a scan in which some
\* probe failed, every port of the range has been probed exactly once and
\* open_ports holds exactly the ports whose probe returned Open.
C6_AnomalyNonFatal ==
    /\ [][\A t \in Threads :
            /\ (pc[t] = "connect" /\ pc'[t] # "connect"
                    /\ prober[port[t]] = "ProbeError")
                  => pc'[t] = "report_error"
            /\ (pc[t] = "report_error" /\ pc'[t] # "report_error")
                  => (pc'[t] = "close" /\ diagnostics'[port[t]] = 1)
            /\ (pc[t] = "close" /\ pc'[t] # "close") => pc'[t] = "loop"
            /\ (pc[t] # "done" /\ pc'[t] = "done")
                  => (pc[t] = "next" /\ ports = <<>>)]_vars
    /\ []((ScanComplete /\ arguments.threads >= 1
              /\ \E p \in InRange : prober[p] = "ProbeError") =>
            /\ \A p \in Ports : probes[p] = (IF p \in InRange THEN 1 ELSE 0)
            /\ Range(open_ports) = OpenInRange
            /\ Len(open_ports) = Cardinality(OpenInRange))

C6_Witness ==
    /\ ScanComplete
    /\ arguments.threads = 1
    /\ arguments.start = 1
    /\ arguments.end = 2
    /\ prober[1] = "ProbeError"
    /\ prober[2] = "Open"
    /\ diagnostics[1] = 1
    /\ open_ports = <<2>>

\* C7 (empty range): if start > end then no port is ever issued or probed,
\* a worker that calls next(ports) can only terminate, open_ports stays
\* empty, nothing is reported as an error and the report is the empty list.
C7_EmptyRange ==
    (arguments.start > arguments.end) =>
        /\ \A p \in Ports : probes[p] = 0 /\ issued[p] = 0 /\ diagnostics[p] = 0
        /\ \A t \in Threads :
              /\ pc[t] \in {"unstarted", "loop", "next", "done"}
              /\ port[t] = 0
        /\ open_ports = <<>>
        /\ reported = <<>>
        /\ ScanComplete => (end_time = start_time /\ joined = arguments.threads)

C7_Witness ==
    /\ ScanComplete
    /\ arguments.start > arguments.end
    /\ arguments.end >= 1
    /\ arguments.threads >= 2
    /\ pc[1] = "done"
    /\ pc[2] = "done"

\* C8 (single port, oversubscription): a worker probes only with a port it
\* was issued; at the end of a scan by one or more workers a range of one
\* port has had exactly one probe; and when there are more workers than
\* ports, the number of probes is the size of the range and at least
\* threads - size workers have terminated without ever being issued a port.
C8_Oversubscription ==
    /\ \A t \in Threads : Probing(t) => port[t] \in InRange
    /\ (ScanComplete /\ arguments.threads >= 1) =>
        /\ (arguments.start = arguments.end) =>
              (TotalProbes = 1 /\ clock = 1)
        /\ (arguments.threads > RangeSize) =>
              /\ TotalProbes = RangeSize
              /\ clock = RangeSize
              /\ Cardinality({t \in Threads : pc[t] = "done" /\ port[t] = 0})
                    >= arguments.threads - RangeSize

C8_Witness ==
    /\ ScanComplete
    /\ arguments.start = arguments.end
    /\ arguments.start >= 2
    /\ arguments.threads >= 2
    /\ port[2] = arguments.start
    /\ port[1] = 0
    /\ pc[1] = "done"

\* C9 (zero concurrency): the main thread starts exactly `threads` workers;
\* with threads = 0 no worker is ever started, the generator is never
\* advanced, no port is issued or probed, and the report is the empty list.
C9_ZeroConcurrency ==
    /\ Len(thread_list) <= arguments.threads
    /\ main_pc \notin {"start_time", "spawn"} =>
          /\ Len(thread_list) = arguments.threads
          /\ \A t \in Threads : (pc[t] # "unstarted") <=> (t <= arguments.threads)
    /\ (arguments.threads = 0) =>
          /\ \A t \in Threads : pc[t] = "unstarted"
          /\ ports = prepare_ports(arguments.start, arguments.end)
          /\ \A p \in Ports : issued[p] = 0 /\ probes[p] = 0
          /\ open_ports = <<>>
          /\ reported = <<>>

C9_Witness ==
    /\ ScanComplete
    /\ arguments.threads = 0
    /\ arguments.start < arguments.end
    /\ \E p \in InRange : prober[p] = "Open"
    /\ Len(ports) >= 2
    /\ reported = <<>>

\* C10 (verbose notifications): a notification for a port is only ever
\* emitted by the worker that probed it, after that port is in open_ports
\* and at most once; with verbose set, when the scan is complete the ports
\* notified are exactly the ports of open_ports; without verbose there is
\* never a notification.
C10_VerboseNotifications ==
    /\ [](\A p \in Ports :
            /\ notified[p] <= Count(open_ports, p)
            /\ notified[p] <= 1
            /\ ~arguments.verbose => notified[p] = 0)
    /\ []((ScanComplete /\ arguments.verbose) =>
            {p \in Ports : notified[p] = 1} = Range(open_ports))
    /\ [][\A p \in Ports : notified'[p] # notified[p] =>
            \E t \in Threads : /\ pc[t] = "verbose"
                               /\ pc'[t] = "close"
                               /\ port[t] = p
                               /\ prober[p] = "Open"]_vars

C10_Witness ==
    /\ ScanComplete
    /\ arguments.verbose
    /\ arguments.threads >= 2
    /\ Len(open_ports) >= 2
    /\ \A p \in Range(open_ports) : notified[p] = 1
    /\ port[1] # port[2]

\* the generator's cursor: the value the next call of next(ports) would yield
Cursor == IF arguments.end >= arguments.start
          THEN arguments.end + 1 - Len(ports)
          ELSE arguments.start

Ascending(s) == \A i, j \in 1..Len(s) : i < j => s[i] < s[j]

\* C11 (result order): open_ports is in the order in which the workers
\* append, every change of it being the append of the appending worker's
\* port at the end; and when two workers have both found an open port and
\* wait to append, either of them may be the first. (The final state with
\* open_ports not ascending is the witness.)
C11_OrderIsCompletionOrder ==
    /\ [][open_ports' # open_ports =>
            \E t \in Threads : /\ pc[t] = "append"
                               /\ pc'[t] = "verbose"
                               /\ open_ports' = Append(open_ports, port[t])]_vars
    /\ [](\A t, u \in Threads :
            (/\ pc[t] = "acquire_open"
             /\ pc[u] = "acquire_open"
             /\ open_ports_lock = NoThread)
               => (/\ ENABLED AcquireOpenPortsLock(t)
                   /\ ENABLED AcquireOpenPortsLock(u)))

C11_Witness ==
    /\ ScanComplete
    /\ arguments.threads >= 2
    /\ Cardinality(OpenInRange) >= 2
    /\ ~Ascending(reported)
    /\ reported = <<2, 1>>

\* C12 (atomic take_next): the ports issued so far are exactly the ports
\* from start up to the cursor, each issued once, and the generator holds
\* the rest of the range; a call of next(ports) that yields is made by the
\* holder of ports_lock, yields the cursor and advances it by one, so the
\* ports are issued in strictly increasing order.
C12_AtomicTakeNext ==
    /\ [](/\ \A p \in Ports :
                issued[p] = (IF p \in InRange /\ p < Cursor THEN 1 ELSE 0)
          /\ ports = prepare_ports(Cursor, arguments.end)
          /\ \A t \in Threads : Probing(t) => port[t] < Cursor
          /\ \A t, u \in Threads :
                (t # u /\ Probing(t) /\ Probing(u)) => port[t] # port[u])
    /\ [][\A t \in Threads :
            (pc[t] = "next" /\ pc'[t] = "socket") =>
                /\ ports_lock = t
                /\ Cursor <= arguments.end
                /\ port'[t] = Cursor
                /\ Cursor' = Cursor + 1
                /\ issued' = [issued EXCEPT ![Cursor] = 1]
                /\ \A u \in Threads \ {t} : port'[u] = port[u]]_vars
    /\ [][Cursor' = Cursor \/ Cursor' = Cursor + 1]_vars

C12_Witness ==
    /\ arguments.start = 1
    /\ arguments.end = 2
    /\ arguments.threads >= 2
    /\ Cursor = 3
    /\ pc[1] = "connect"
    /\ pc[2] = "connect"
    /\ port[2] = 1
    /\ port[1] = 2

RunningCount == Cardinality({t \in Threads : Running(t)})

\* C13 as stated: in every state between the start of the scan and the
\* completion of the join, the number of running workers equals `threads`.
C13_ExactlyConcurrencyRunning ==
    main_pc \in {"spawn", "join"} => RunningCount = arguments.threads

\* C13 (amended): at no time are more than `threads` workers running; the
\* workers are started one by one, exactly `threads` of them by the time
\* the join loop begins; as long as the generator has ports left every
\* started worker is still running; and none runs once the join loop is
\* completed.
C13_AtMostConcurrencyRunning ==
    /\ RunningCount <= arguments.threads
    /\ RunningCount <= Len(thread_list)
    /\ Len(thread_list) <= arguments.threads
    /\ main_pc \notin {"start_time", "spawn"} =>
          Len(thread_list) = arguments.threads
    /\ ports # <<>> => RunningCount = Len(thread_list)
    /\ AfterJoin => RunningCount = 0

C13_Witness ==
    /\ main_pc = "join"
    /\ arguments.threads = 2
    /\ RunningCount = 1
    /\ pc[1] = "done"
    /\ pc[2] = "connect"
    /\ joined = 1

\* C14 (sticky exhaustion): a worker has terminated only if the generator
\* is exhausted; once it is exhausted it stays so, no port is issued and no
\* worker's port changes; a call of next(ports) on the exhausted generator
\* ends the worker and releases ports_lock, which a terminated worker never
\* holds, so a worker waiting at the top of its loop can enter.
C14_StickyExhaustion ==
    /\ []((\E t \in Threads : pc[t] = "done") => ports = <<>>)
    /\ [][ports = <<>> =>
            (ports' = <<>> /\ Cursor' = Cursor /\ issued' = issued /\ port' = port)]_vars
    /\ [][\A t \in Threads :
            (pc[t] = "next" /\ ports = <<>> /\ pc'[t] # "next") =>
                (pc'[t] = "done" /\ ports_lock = t /\ ports_lock' = NoThread)]_vars
    /\ [](\A t \in Threads : pc[t] = "done" => ports_lock # t)
    /\ [](\A t \in Threads :
            (ports = <<>> /\ pc[t] = "loop" /\ \A u \in Threads : pc[u] # "next")
                => ENABLED AcquirePortsLock(t))

C14_Witness ==
    /\ RangeSize >= 1
    /\ arguments.threads >= 2
    /\ ports = <<>>
    /\ pc[1] = "done"
    /\ port[1] # 0
    /\ pc[2] = "next"
    /\ ports_lock = 2

\* C15 (lock-protected shared state): a worker holds ports_lock exactly
\* while it is at next(ports) and open_ports_lock exactly while it is at
\* the append; at most one worker is in each of the two sections; the
\* generator changes only in a step of the holder of ports_lock and
\* open_ports only in a step of the holder of open_ports_lock.
C15_LockProtected ==
    /\ [](/\ ports_lock \in Threads \cup {NoThread}
          /\ open_ports_lock \in Threads \cup {NoThread}
          /\ \A t \in Threads :
                /\ (ports_lock = t) <=> (pc[t] = "next")
                /\ (open_ports_lock = t) <=> (pc[t] = "append")
          /\ Cardinality({t \in Threads : pc[t] = "next"}) <= 1
          /\ Cardinality({t \in Threads : pc[t] = "append"}) <= 1)
    /\ [][(ports' # ports \/ issued' # issued) =>
            \E t \in Threads : ports_lock = t /\ pc[t] = "next" /\ pc'[t] = "socket"]_vars
    /\ [][\A t \in Threads : (pc[t] = "next" /\ pc'[t] # "next") => ports_lock = t]_vars
    /\ [][open_ports' # open_ports =>
            \E t \in Threads :
                open_ports_lock = t /\ pc[t] = "append" /\ pc'[t] = "verbose"]_vars

C15_Witness ==
    /\ arguments.threads >= 2
    /\ pc[1] = "append"
    /\ open_ports_lock = 1
    /\ pc[2] = "next"
    /\ ports_lock = 2
    /\ ports # <<>>

\* C16 (open-port collection lifecycle): open_ports is empty until a worker
\* has been started; every step leaves it unchanged or appends one port;
\* every entry is a port of [start, end] that was issued and probed once
\* and whose probe returned Open, and no entry occurs twice; a connect that
\* ends Closed or ProbeError does not lead to an append.
C16_CollectionLifecycle ==
    /\ [](thread_list = <<>> => open_ports = <<>>)
    /\ [][\/ open_ports' = open_ports
          \/ \E p \in Ports : open_ports' = Append(open_ports, p)]_vars
    /\ [](\A i \in 1..Len(open_ports) :
            /\ open_ports[i] \in InRange
            /\ issued[open_ports[i]] = 1
            /\ probes[open_ports[i]] = 1
            /\ prober[open_ports[i]] = "Open"
            /\ Count(open_ports, open_ports[i]) = 1)
    /\ [](\A t \in Threads :
            pc[t] \in {"acquire_open", "append", "verbose"} =>
                prober[port[t]] = "Open")
    /\ [][\A t \in Threads :
            (pc[t] = "connect" /\ pc'[t] # "connect") =>
                /\ open_ports' = open_ports
                /\ prober[port[t]] # "Open" =>
                      pc'[t] \in {"close", "report_error"}]_vars

C16_Witness ==
    /\ ScanComplete
    /\ RangeSize >= 2
    /\ Len(open_ports) = 1
    /\ \E p \in InRange : prober[p] = "ProbeError" /\ probes[p] = 1

\* C17 (diagnostics only for anomalies): a connect that ends Closed takes
\* the worker straight to the end of the iteration with no line printed; a
\* diagnostic is printed only by a worker whose connect ended in ProbeError,
\* for that worker's port and at most once per port; when the scan is
\* complete the ports with a diagnostic are exactly the ports of the range
\* whose probe ended in ProbeError.
C17_DiagnosticsOnlyForAnomalies ==
    /\ [](\A p \in Ports :
            /\ diagnostics[p] <= 1
            /\ diagnostics[p] = 1 =>
                  (p \in InRange /\ prober[p] = "ProbeError" /\ probes[p] = 1)
            /\ prober[p] = "Closed" => (diagnostics[p] = 0 /\ notified[p] = 0))
    /\ [](\A t \in Threads : pc[t] = "report_error" => prober[port[t]] = "ProbeError")
    /\ [][\A t \in Threads :
            (pc[t] = "connect" /\ pc'[t] # "connect" /\ prober[port[t]] = "Closed") =>
                (pc'[t] = "close" /\ diagnostics' = diagnostics /\ notified' = notified)]_vars
    /\ [][diagnostics' # diagnostics =>
            \E t \in Threads :
                /\ pc[t] = "report_error"
                /\ pc'[t] = "close"
                /\ diagnostics' = [diagnostics EXCEPT ![port[t]] = 1]]_vars
    /\ []((ScanComplete /\ arguments.threads >= 1) =>
            {p \in Ports : diagnostics[p] = 1} =
                {p \in Ports : p \in InRange /\ prober[p] = "ProbeError"})

C17_Witness ==
    /\ ScanComplete
    /\ arguments.threads >= 2
    /\ \E p, q \in InRange :
          /\ prober[p] = "Closed"
          /\ prober[q] = "ProbeError"
          /\ probes[p] = 1
          /\ diagnostics[p] = 0
          /\ diagnostics[q] = 1

\* the positions of scan_port inside `with socket.socket(...) as s:`
SocketOpen(t) == pc[t] \in {"connect", "acquire_open", "append", "verbose",
                            "report_error", "close"}

\* C18 (scoped socket lifetime): a worker has one socket open exactly while
\* it is inside the socket's with block and none otherwise, in particular
\* none when it takes a port or has terminated; it comes back to the top of
\* its loop only through the close of the socket; the number of open sockets
\* never exceeds `threads`, and none is open when the scan is complete.
C18_ScopedSocket ==
    /\ [](/\ \A t \in Threads : sock[t] = (IF SocketOpen(t) THEN 1 ELSE 0)
          /\ SumOver(sock, Threads) <= arguments.threads
          /\ ScanComplete => \A t \in Threads : sock[t] = 0)
    /\ [][\A t \in Threads :
            /\ (pc[t] \notin {"loop", "unstarted"} /\ pc'[t] = "loop") =>
                  (pc[t] = "close" /\ sock[t] = 1 /\ sock'[t] = 0)
            /\ (pc[t] = "next" /\ pc'[t] # "next") => (sock[t] = 0 /\ sock'[t] = 0)]_vars

C18_Witness ==
    /\ arguments.threads >= 2
    /\ pc[1] = "loop"
    /\ sock[1] = 0
    /\ port[1] # 0
    /\ prober[port[1]] = "ProbeError"
    /\ diagnostics[port[1]] = 1
    /\ pc[2] = "verbose"
    /\ sock[2] = 1

\* C19 (sequential degeneration): with one worker the ports are probed one
\* at a time in the order start, start + 1, ..., end: the port probed by a
\* connect is start plus the number of probes made before, the ports probed
\* are those below the cursor except the one the worker is about to probe,
\* and open_ports is in strictly ascending order, at the end the ascending
\* list of the open ports of the range.
C19_Sequential ==
    /\ [](arguments.threads = 1 =>
            /\ Ascending(open_ports)
            /\ \A p \in Ports :
                  probes[p] =
                     (IF /\ p \in InRange
                         /\ p < Cursor
                         /\ ~(pc[1] \in {"socket", "connect"} /\ p = port[1])
                      THEN 1 ELSE 0)
            /\ Probing(1) => port[1] = Cursor - 1
            /\ ScanComplete =>
                  (Range(reported) = OpenInRange /\ Ascending(reported)))
    /\ [][arguments.threads = 1 =>
            \A p \in Ports :
                probes'[p] # probes[p] =>
                    /\ p = arguments.start + TotalProbes
                    /\ \A q \in InRange : q < p =>
                          (probes[q] = 1 /\ issued[q] = 1)
                    /\ sock[1] = 1]_vars

C19_Witness ==
    /\ ScanComplete
    /\ arguments.threads = 1
    /\ arguments.verbose
    /\ reported = <<1, 2>>
    /\ clock = 2

\* C20 (lock independence): no worker holds both locks; the holder of
\* ports_lock is at next(ports), with no socket open and no connect in
\* flight; a worker that waits for one lock holds neither; the holder of a
\* lock can always take the step that releases it; and while one worker's
\* connect is in flight, a worker at the top of its loop can take
\* ports_lock unless a third worker is at next(ports).
C20_LockIndependence ==
    /\ [](\A t \in Threads :
            /\ ~(ports_lock = t /\ open_ports_lock = t)
            /\ ports_lock = t => (pc[t] = "next" /\ sock[t] = 0)
            /\ pc[t] \in {"socket", "connect"} =>
                  (ports_lock # t /\ open_ports_lock # t)
            /\ pc[t] \in {"loop", "acquire_open"} =>
                  (ports_lock # t /\ open_ports_lock # t))
    /\ [](\A t \in Threads :
            /\ ports_lock = t => ENABLED (TakeNext(t) \/ Exhausted(t))
            /\ open_ports_lock = t => ENABLED AppendOpenPort(t))
    /\ [](\A t, u \in Threads :
            (/\ t # u
             /\ pc[t] = "connect"
             /\ pc[u] = "loop"
             /\ \A v \in Threads : pc[v] # "next")
                => ENABLED AcquirePortsLock(u))

C20_Witness ==
    /\ arguments.threads >= 2
    /\ pc[1] = "connect"
    /\ port[1] = 1
    /\ pc[2] = "socket"
    /\ port[2] = 2
    /\ ports_lock = NoThread

====
